---- MODULE Spec2Model ----
(***************************************************************************)
(* Model of the ROSAirSim autonomy plugin                                  *)
(* (src/plugins/autonomy/ROSAirSim/ROSAirSim.cpp).                         *)
(*                                                                         *)
(* The plugin holds the most recent AirSim LIDAR and image samples, which  *)
(* two subscription callbacks store, and republishes them on ROS at every  *)
(* call of step_autonomy, together with the coordinate-frame transforms    *)
(* recomputed from the poses of the samples (NED in, ENU out).             *)
(*                                                                         *)
(* Abstractions:                                                           *)
(*  - strings are sequences of one-character strings, so that lower-casing *)
(*    and concatenation are computed and not assumed;                      *)
(*  - an orientation is the rotation it denotes, a 3x3 integer matrix of   *)
(*    the rotation group of the cube, in which the two fixed rotations of  *)
(*    the axis conversion (-180 degrees about X, +90 degrees about Z) are  *)
(*    exact; floating-point rounding is not modelled;                      *)
(*  - time stamps and pixel data are left out;                             *)
(*  - world_trans_ is no variable: every use of the member follows an      *)
(*    assignment of all its fields in the same routine;                    *)
(*  - the image callback and step_autonomy are sequences of steps cut at   *)
(*    the operations of img_topic_published_mutex_, and the steps of the   *)
(*    two routines interleave.                                             *)
(***************************************************************************)
EXTENDS Integers, Sequences, FiniteSets, TLC

\* Largest number of images in one AirSimImages message.
MaxImages == 2
\* Largest number of values in the point cloud of one AirSimLidar message.
MaxCloud == 4

----------------------------------------------------------------------------
(* Strings *)

UpperCase ==
    << "A", "B", "C", "D", "E", "F", "G", "H", "I", "J", "K", "L", "M",
       "N", "O", "P", "Q", "R", "S", "T", "U", "V", "W", "X", "Y", "Z" >>

LowerCase ==
    << "a", "b", "c", "d", "e", "f", "g", "h", "i", "j", "k", "l", "m",
       "n", "o", "p", "q", "r", "s", "t", "u", "v", "w", "x", "y", "z" >>

ToLowerChar(ch) ==
    IF \E i \in DOMAIN UpperCase : UpperCase[i] = ch
    THEN LowerCase[CHOOSE i \in DOMAIN UpperCase : UpperCase[i] = ch]
    ELSE ch

\* boost::algorithm::to_lower_copy
to_lower_copy(s) == [i \in 1..Len(s) |-> ToLowerChar(s[i])]

Slash == << "/" >>

Range(s) == { s[i] : i \in DOMAIN s }

----------------------------------------------------------------------------
(* Vectors, rotations and rigid transforms (Eigen) *)

VecAdd(u, v) == << u[1] + v[1], u[2] + v[2], u[3] + v[3] >>

VecNeg(u) == << 0 - u[1], 0 - u[2], 0 - u[3] >>

MatMul(A, B) ==
    [i \in 1..3 |-> [j \in 1..3 |->
        A[i][1] * B[1][j] + A[i][2] * B[2][j] + A[i][3] * B[3][j]]]

MatVec(A, v) ==
    [i \in 1..3 |-> A[i][1] * v[1] + A[i][2] * v[2] + A[i][3] * v[3]]

Transpose(A) == [i \in 1..3 |-> [j \in 1..3 |-> A[j][i]]]

Identity3 == << <<1, 0, 0>>, <<0, 1, 0>>, <<0, 0, 1>> >>

\* Eigen::AngleAxis<float>(-180 * (M_PI / 180), Eigen::Vector3f::UnitX())
AngleAxis_xTo == << <<1, 0, 0>>, <<0, -1, 0>>, <<0, 0, -1>> >>

\* Eigen::AngleAxis<float>(90 * (M_PI / 180), Eigen::Vector3f::UnitZ())
AngleAxis_zTo == << <<0, -1, 0>>, <<1, 0, 0>>, <<0, 0, 1>> >>

\* Eigen::Isometry3f(translation * rotation)
Isometry(t, R) == [translation |-> t, linear |-> R]

\* Eigen::Isometry3f::inverse()
IsoInverse(T) ==
    [translation |-> VecNeg(MatVec(Transpose(T.linear), T.translation)),
     linear      |-> Transpose(T.linear)]

\* Eigen::Isometry3f operator*
IsoMul(A, B) ==
    [translation |-> VecAdd(MatVec(A.linear, B.translation), A.translation),
     linear      |-> MatMul(A.linear, B.linear)]

\* geometry_msgs::TransformStamped, without its time stamp
TransformStamped(frame, child, T) ==
    [frame_id       |-> frame,
     child_frame_id |-> child,
     translation    |-> T.translation,
     rotation       |-> T.linear]

----------------------------------------------------------------------------
(* Inputs *)

RotY90 == << <<0, 0, 1>>, <<0, 1, 0>>, <<-1, 0, 0>> >>

PoseA == [position |-> <<1, 2, 3>>, orientation |-> Identity3]
PoseB == [position |-> <<2, 0, -1>>, orientation |-> RotY90]

\* (vehicle pose, LIDAR pose) of a LIDAR sample
PosePairs == { <<PoseA, PoseB>>, <<PoseB, PoseA>> }

\* (vehicle pose, camera pose) of the images of a message
ImagePosePairs == { <<PoseB, PoseA>> }

\* camera_config of the cameras: cam_name, img_type_name, pixels_as_float.
\* Two camera names that differ in letter case only, and two that are
\* lower-case already.
CameraConfigs ==
    { [cam_name |-> << "C", "a" >>, img_type_name |-> << "S" >>,
       pixels_as_float |-> FALSE],
      [cam_name |-> << "c", "a" >>, img_type_name |-> << "d" >>,
       pixels_as_float |-> TRUE],
      [cam_name |-> << "c", "b" >>, img_type_name |-> << "S" >>,
       pixels_as_float |-> FALSE] }

\* sensor::AirSimImageType
Image(k, pp) ==
    [cam_name               |-> k.cam_name,
     img_type_name          |-> k.img_type_name,
     pixels_as_float        |-> k.pixels_as_float,
     vehicle_pose_world_NED |-> pp[1],
     camera_pose_world_NED  |-> pp[2]]

\* std::vector<sensor::AirSimImageType>, the data of one AirSimImages message:
\* the images of one message are taken at the same poses
ImageMsgs ==
    UNION { { [i \in 1..n |-> Image(h[i], pp)] :
                h \in [1..n -> CameraConfigs], pp \in ImagePosePairs } :
            n \in 0..MaxImages }

\* sensor::AirSimLidarType, the data of one AirSimLidar message
LidarMsgs ==
    { [point_cloud            |-> [i \in 1..n |-> 1],
       vehicle_pose_world_NED |-> pp[1],
       lidar_pose_world_NED   |-> pp[2]] :
      n \in 0..MaxCloud, pp \in PosePairs }

\* parent_->state_truth() when init is called: pos() and quat()
TruthState == [position |-> <<3, -1, 2>>, orientation |-> RotY90]

\* the "ros_namespace_prefix" parameter and parent_->id().id()
ros_name_param == << "r" >>
entity_id_str == << "1" >>

world_frame == << "w", "o", "r", "l", "d" >>

----------------------------------------------------------------------------
(* State *)

VARIABLES
    state_truth,                \* parent_->state_truth(): pos and quat
    pub_image_data_,
    pub_lidar_data_,
    ros_namespace_,
    lidar_data_,
    image_data_,
    img_publishers_,            \* the topic of each publisher, in order
    camera_names_,
    img_topic_published_,
    img_topic_published_mutex_, \* "free", or the routine holding the lock
    subscriptions,              \* topics subscribed on "LocalNetwork"
    init_pc,
    cb_pc,
    cb_img_topic_published,     \* the local of airsim_image_cb (FALSE outside)
    step_pc,
    step_img_topic_published,   \* the local of step_autonomy (FALSE outside)
    event,                      \* the last step taken, and its input
    last,                       \* the last LIDAR message the callback kept
                                \* and the last non-empty image message
    first,                      \* the sample the publishers were made from,
                                \* and the batches sent while making them
    out_images,                 \* images published by the last step
    out_scan,                   \* point clouds published by the last step
    out_tf,                     \* transform batches sent by the last step
    init_tf_sent,               \* number of sendTransform calls made by init
    sensor_tf_sent              \* a callback or step_autonomy has sent one

vars ==
    << state_truth, pub_image_data_, pub_lidar_data_, ros_namespace_,
       lidar_data_, image_data_, img_publishers_,
       camera_names_, img_topic_published_, img_topic_published_mutex_,
       subscriptions, init_pc, cb_pc, cb_img_topic_published, step_pc,
       step_img_topic_published, event, first, last, out_images,
       out_scan,
       out_tf, init_tf_sent, sensor_tf_sent >>

config_vars == << state_truth, pub_image_data_, pub_lidar_data_, ros_namespace_ >>

\* A step op of a routine, the size of the message it was given (its number
\* of images or of point cloud values), and the value of the flag it acted on.
Event(op, n, flag) == [op |-> op, n |-> n, flag |-> flag]

\* What a step that publishes nothing leaves behind.
Silent(op, n) ==
    /\ event' = Event(op, n, FALSE)
    /\ out_images' = << >>
    /\ out_scan' = << >>
    /\ out_tf' = << >>

\* The state after ROSAirSim::ROSAirSim().  The poses of the default
\* lidar_data_ are not set by any code of the file: any pose.  The flag
\* starts unset and the containers empty.
Init ==
    /\ state_truth = TruthState
    /\ pub_image_data_ = FALSE
    /\ pub_lidar_data_ = FALSE
    /\ ros_namespace_ = << >>
    /\ \E pp \in PosePairs :
          lidar_data_ = [point_cloud            |-> << >>,
                         vehicle_pose_world_NED |-> pp[1],
                         lidar_pose_world_NED   |-> pp[2]]
    /\ image_data_ = << >>
    /\ img_publishers_ = << >>
    /\ camera_names_ = << >>
    /\ img_topic_published_ = FALSE
    /\ img_topic_published_mutex_ = "free"
    /\ subscriptions = {}
    /\ init_pc = "start"
    /\ cb_pc = "idle"
    /\ cb_img_topic_published = FALSE
    /\ step_pc = "idle"
    /\ step_img_topic_published = FALSE
    /\ event = Event("construct", 0, FALSE)
    /\ first = [sample |-> << >>, tf |-> << >>]
    /\ last = [lidar |-> {}, images |-> << >>]
    /\ out_images = << >>
    /\ out_scan = << >>
    /\ out_tf = << >>
    /\ init_tf_sent = 0
    /\ sensor_tf_sent = FALSE

----------------------------------------------------------------------------
(* ROSAirSim::init *)

\* Lines 99-109: world_trans_ from the truth state of the entity.
InitWorldTrans(ns) ==
    [frame_id       |-> world_frame,
     child_frame_id |-> ns \o << "/", "b", "a", "s", "e", "_", "l", "i", "n", "k" >>,
     translation    |-> state_truth.position,
     rotation       |-> state_truth.orientation]

\* InitSetup with the subscriptions of lines 257-262 made before the
\* transform is sent.
InitSetup_SubscribeFirst ==
    /\ init_pc = "start"
    /\ \E img \in BOOLEAN, lid \in BOOLEAN :
          /\ pub_image_data_' = img
          /\ pub_lidar_data_' = lid
    /\ ros_namespace_' = ros_name_param \o entity_id_str
    /\ subscriptions' =
          (IF pub_lidar_data_' THEN {"AirSimLidar"} ELSE {})
          \cup (IF pub_image_data_' THEN {"AirSimImages"} ELSE {})
    /\ Silent("InitSetup", 0)
    /\ init_pc' = "subscribe"
    /\ UNCHANGED << state_truth, first, last, lidar_data_, image_data_,
                    img_publishers_, camera_names_, img_topic_published_,
                    img_topic_published_mutex_, cb_pc,
                    cb_img_topic_published, step_pc,
                    step_img_topic_published, init_tf_sent, sensor_tf_sent >>

\* Lines 62-110: the parameters, the namespace and the initial world
\* transform, sent on laser_broadcaster_.
InitSetup ==
    /\ init_pc = "start"
    /\ \E img \in BOOLEAN, lid \in BOOLEAN :
          /\ pub_image_data_' = img
          /\ pub_lidar_data_' = lid
    /\ ros_namespace_' = ros_name_param \o entity_id_str
    /\ event' = Event("InitSetup", 0, FALSE)
    /\ out_tf' = << << InitWorldTrans(ros_namespace_') >> >>
    /\ out_images' = << >>
    /\ out_scan' = << >>
    /\ init_tf_sent' = init_tf_sent + 1
    /\ init_pc' = "subscribe"
    /\ UNCHANGED << state_truth, first, last, lidar_data_, image_data_, img_publishers_,
                    camera_names_, img_topic_published_,
                    img_topic_published_mutex_, subscriptions, cb_pc,
                    cb_img_topic_published, step_pc,
                    step_img_topic_published, sensor_tf_sent >>

\* Lines 257-262: the two subscriptions.
InitSubscribe ==
    /\ init_pc = "subscribe"
    /\ subscriptions' =
          (IF pub_lidar_data_ THEN {"AirSimLidar"} ELSE {})
          \cup (IF pub_image_data_ THEN {"AirSimImages"} ELSE {})
    /\ init_pc' = "done"
    /\ Silent("InitSubscribe", 0)
    /\ UNCHANGED << config_vars, first, last, lidar_data_, image_data_,
                    img_publishers_, camera_names_, img_topic_published_,
                    img_topic_published_mutex_, cb_pc,
                    cb_img_topic_published, step_pc,
                    step_img_topic_published, init_tf_sent, sensor_tf_sent >>

----------------------------------------------------------------------------
(* airsim_lidar_cb, lines 113-118 *)

\* airsim_lidar_cb without the size check of line 114.
airsim_lidar_cb_NoSizeCheck(msg) ==
    /\ "AirSimLidar" \in subscriptions
    /\ cb_pc = "idle"
    /\ step_pc = "idle"
    /\ lidar_data_' = msg
    /\ last' = [last EXCEPT !.lidar = {msg}]
    /\ Silent("airsim_lidar_cb", Len(msg.point_cloud))
    /\ UNCHANGED << config_vars, first, image_data_, img_publishers_,
                    camera_names_, img_topic_published_,
                    img_topic_published_mutex_, subscriptions, init_pc,
                    cb_pc, cb_img_topic_published, step_pc,
                    step_img_topic_published, init_tf_sent, sensor_tf_sent >>

\* The callbacks of the plugin are delivered one at a time.  This one
\* touches lidar_data_ alone, which step_autonomy reads in its last step: a
\* delivery during the steps of step_autonomy before that one commutes with
\* them, and is taken before them.
airsim_lidar_cb(msg) ==
    /\ "AirSimLidar" \in subscriptions
    /\ cb_pc = "idle"
    /\ step_pc = "idle"
    /\ lidar_data_' = IF Len(msg.point_cloud) < 3 THEN lidar_data_ ELSE msg
    /\ last' = IF Len(msg.point_cloud) < 3 THEN last
               ELSE [last EXCEPT !.lidar = {msg}]
    /\ Silent("airsim_lidar_cb", Len(msg.point_cloud))
    /\ UNCHANGED << config_vars, first, image_data_, img_publishers_,
                    camera_names_, img_topic_published_,
                    img_topic_published_mutex_, subscriptions, init_pc,
                    cb_pc, cb_img_topic_published, step_pc,
                    step_img_topic_published, init_tf_sent, sensor_tf_sent >>

LidarCallback == \E msg \in LidarMsgs : airsim_lidar_cb(msg)

----------------------------------------------------------------------------
(* img_topic_published_mutex_ *)

\* std::mutex::lock: blocks while another routine holds the lock
MutexLock(who) ==
    /\ img_topic_published_mutex_ = "free"
    /\ img_topic_published_mutex_' = who

\* An unlock that was forgotten.
MutexUnlock_Forgotten(who) ==
    /\ UNCHANGED img_topic_published_mutex_

\* std::mutex::unlock
MutexUnlock(who) ==
    /\ img_topic_published_mutex_' = "free"

----------------------------------------------------------------------------
(* airsim_image_cb, lines 121-255 *)

\* Lines 212, 234, 373, 395, 494 and 514.
base_link == ros_namespace_ \o << "/", "b", "a", "s", "e", "_", "l", "i", "n", "k" >>

\* Lines 418 and 495.
base_laser ==
    ros_namespace_ \o << "/", "b", "a", "s", "e", "_", "l", "a", "s", "e", "r" >>

\* Lines 139 and 283.
TopicName(camera_name, image_type_name) ==
    Slash \o ros_namespace_ \o Slash \o camera_name \o Slash \o image_type_name

\* Lines 143-152 and 284-298: the sensor_msgs::Image made of image a, and the
\* publisher it is published on.
ImgMsg(pub, topic, camera_name, a) ==
    [publisher |-> pub,
     topic     |-> topic,
     frame_id  |-> ros_namespace_ \o Slash \o camera_name
                      \o << "/", "i", "m", "a", "g", "e", "s" >>,
     encoding  |-> IF a.pixels_as_float THEN "" ELSE "rgb8",
     image     |-> a]

\* Lines 169-184: the vehicle pose of image a in ENU.
CbVehicleENU(a) ==
    LET ned == a.vehicle_pose_world_NED
        vehicle_position_ENU ==
            << ned.position[2], ned.position[1], -1 * ned.position[3] >>
        vehicle_orientation_ENU ==
            MatMul(AngleAxis_zTo, MatMul(AngleAxis_xTo, ned.orientation))
    IN  Isometry(vehicle_position_ENU, vehicle_orientation_ENU)

\* Lines 189-204: the camera pose of image a in ENU.
CbCameraENU(a) ==
    LET ned == a.camera_pose_world_NED
        camera_position_world_ENU ==
            << ned.position[2], ned.position[1], -1 * ned.position[3] >>
        camera_orientation_world_ENU ==
            MatMul(AngleAxis_zTo, MatMul(AngleAxis_xTo, ned.orientation))
    IN  Isometry(camera_position_world_ENU, camera_orientation_world_ENU)

\* Lines 207-227: image_trans_ of the callback.
CbImageTrans(a, camera_name) ==
    TransformStamped(base_link,
                     ros_namespace_ \o Slash \o camera_name
                        \o << "/", "p", "o", "s", "e" >>,
                     IsoMul(IsoInverse(CbVehicleENU(a)), CbCameraENU(a)))

\* Lines 233-243: world_trans_ of the callback.
CbWorldTrans(a) == TransformStamped(world_frame, base_link, CbVehicleENU(a))

\* CbLoopBody without the test of lines 159-163: every image records its
\* camera name and sends the transforms of its camera.
CbLoopBody_EveryImage(acc, i) ==
    LET a == image_data_[i]
        camera_name == to_lower_copy(a.cam_name)
        image_type_name == to_lower_copy(a.img_type_name)
        topic_name == TopicName(camera_name, image_type_name)
        pubs == Append(acc.pubs, topic_name)
        img_msg == ImgMsg(Len(pubs), pubs[Len(pubs)], camera_name, a)
        batch ==
            IF pub_lidar_data_
            THEN << CbImageTrans(a, camera_name) >>
            ELSE << CbImageTrans(a, camera_name), CbWorldTrans(a) >>
    IN  [pubs   |-> pubs,
         images |-> Append(acc.images, img_msg),
         names  |-> Append(acc.names, camera_name),
         tf     |-> Append(acc.tf, batch)]

\* Lines 134-248: the body of the loop for image i of image_data_, on the
\* accumulated publishers, camera names and outputs.
CbLoopBody(acc, i) ==
    LET a == image_data_[i]
        camera_name == to_lower_copy(a.cam_name)
        image_type_name == to_lower_copy(a.img_type_name)
        topic_name == TopicName(camera_name, image_type_name)
        pubs == Append(acc.pubs, topic_name)
        img_msg == ImgMsg(Len(pubs), pubs[Len(pubs)], camera_name, a)
        old_cam_name ==
            \E k \in DOMAIN acc.names : acc.names[k] = camera_name
        batch ==
            IF pub_lidar_data_
            THEN << CbImageTrans(a, camera_name) >>
            ELSE << CbImageTrans(a, camera_name), CbWorldTrans(a) >>
    IN  [pubs   |-> pubs,
         images |-> Append(acc.images, img_msg),
         names  |-> IF old_cam_name THEN acc.names
                    ELSE Append(acc.names, camera_name),
         tf     |-> IF old_cam_name THEN acc.tf ELSE Append(acc.tf, batch)]

RECURSIVE CbLoop(_, _)
CbLoop(acc, i) ==
    IF i > Len(image_data_) THEN acc
    ELSE CbLoop(CbLoopBody(acc, i), i + 1)

\* Lines 121-125: the message is stored, and an empty one ends the callback.
CbRecv(msg) ==
    /\ "AirSimImages" \in subscriptions
    /\ cb_pc = "idle"
    /\ image_data_' = msg
    /\ last' = IF Len(msg) = 0 THEN last ELSE [last EXCEPT !.images = msg]
    /\ cb_pc' = IF Len(image_data_') = 0 THEN "idle" ELSE "lock1"
    /\ Silent("airsim_image_cb", Len(msg))
    /\ UNCHANGED << config_vars, first, lidar_data_, img_publishers_,
                    camera_names_, img_topic_published_,
                    img_topic_published_mutex_, subscriptions, init_pc,
                    cb_img_topic_published, step_pc,
                    step_img_topic_published, init_tf_sent, sensor_tf_sent >>

cb_silent(op) ==
    /\ Silent(op, 0)
    /\ UNCHANGED << first, last, config_vars, lidar_data_, image_data_,
                    img_publishers_, camera_names_, subscriptions, init_pc,
                    step_pc, step_img_topic_published, init_tf_sent,
                    sensor_tf_sent >>

\* Line 127.
CbLock1 ==
    /\ cb_pc = "lock1"
    /\ MutexLock("cb")
    /\ cb_pc' = "crit1"
    /\ cb_silent("CbLock1")
    /\ UNCHANGED << img_topic_published_, cb_img_topic_published >>

\* CbReadUnlock that sets the flag where it reads it, before the
\* publishers are made.
CbReadUnlock_SetEarly ==
    /\ cb_pc = "crit1"
    /\ cb_img_topic_published' = img_topic_published_
    /\ img_topic_published_' = TRUE
    /\ MutexUnlock("cb")
    /\ cb_pc' = "create"
    /\ cb_silent("CbReadUnlock")

\* Lines 128-129: the flag is read, and the lock released.
CbReadUnlock ==
    /\ cb_pc = "crit1"
    /\ cb_img_topic_published' = img_topic_published_
    /\ MutexUnlock("cb")
    /\ cb_pc' = "create"
    /\ cb_silent("CbReadUnlock")
    /\ UNCHANGED << img_topic_published_ >>

\* Lines 132-248: the publishers, the first images and the first camera
\* transforms; nothing when the publishers exist (line 254).
CbCreate ==
    /\ cb_pc = "create"
    /\ IF ~cb_img_topic_published
       THEN LET r == CbLoop([pubs   |-> img_publishers_,
                             images |-> << >>,
                             names  |-> camera_names_,
                             tf     |-> << >>], 1)
            IN  /\ img_publishers_' = r.pubs
                /\ camera_names_' = r.names
                /\ out_images' = r.images
                /\ out_tf' = r.tf
                /\ first' = [sample |-> image_data_, tf |-> r.tf]
                /\ sensor_tf_sent' = (sensor_tf_sent \/ r.tf # << >>)
                /\ cb_pc' = "lock2"
                /\ UNCHANGED cb_img_topic_published
       ELSE /\ out_images' = << >>
            /\ out_tf' = << >>
            /\ cb_pc' = "idle"
            /\ cb_img_topic_published' = FALSE
            /\ UNCHANGED << img_publishers_, camera_names_, sensor_tf_sent,
                            first >>
    /\ event' = Event("CbCreate", 0, cb_img_topic_published)
    /\ out_scan' = << >>
    /\ UNCHANGED << config_vars, last, lidar_data_, image_data_,
                    img_topic_published_, img_topic_published_mutex_,
                    subscriptions, init_pc, step_pc,
                    step_img_topic_published, init_tf_sent >>

\* Line 249.
CbLock2 ==
    /\ cb_pc = "lock2"
    /\ MutexLock("cb")
    /\ cb_pc' = "crit2"
    /\ cb_silent("CbLock2")
    /\ UNCHANGED << img_topic_published_, cb_img_topic_published >>

\* Lines 250-253: the flag is set, the lock released, and the callback ends.
CbSetUnlock ==
    /\ cb_pc = "crit2"
    /\ img_topic_published_' = TRUE
    /\ MutexUnlock("cb")
    /\ cb_pc' = "idle"
    /\ cb_silent("CbSetUnlock")
    /\ UNCHANGED << cb_img_topic_published >>

ImageCallback ==
    \/ \E msg \in ImageMsgs : CbRecv(msg)
    \/ CbLock1
    \/ CbReadUnlock
    \/ CbCreate
    \/ CbLock2
    \/ CbSetUnlock

----------------------------------------------------------------------------
(* ROSAirSim::step_autonomy, lines 265-530 *)

\* Lines 278-302: each image of image_data_ is published on the first
\* publisher of its topic, if there is one.
RECURSIVE StepImagesLoop(_, _)
StepImagesLoop(published, i) ==
    IF i > Len(image_data_) THEN published
    ELSE
      LET a == image_data_[i]
          camera_name == to_lower_copy(a.cam_name)
          image_type_name == to_lower_copy(a.img_type_name)
          topic_name_match == TopicName(camera_name, image_type_name)
          matching == { k \in DOMAIN img_publishers_ :
                          img_publishers_[k] = topic_name_match }
          pub == CHOOSE k \in matching : \A m \in matching : k <= m
      IN  StepImagesLoop(
            IF matching = {} THEN published
            ELSE Append(published,
                        ImgMsg(pub, img_publishers_[pub], camera_name, a)),
            i + 1)

\* StepVehicleENU without the swap of X and Y.
StepVehicleENU_NoSwap(a) ==
    LET ned == a.vehicle_pose_world_NED
        vehicle_position_ENU ==
            << ned.position[1], ned.position[2], -1 * ned.position[3] >>
        vehicle_orientation_ENU ==
            MatMul(AngleAxis_zTo, MatMul(AngleAxis_xTo, ned.orientation))
    IN  Isometry(vehicle_position_ENU, vehicle_orientation_ENU)

\* Lines 330-345: the vehicle pose of image a in ENU.
StepVehicleENU(a) ==
    LET ned == a.vehicle_pose_world_NED
        vehicle_position_ENU ==
            << ned.position[2], ned.position[1], -1 * ned.position[3] >>
        vehicle_orientation_ENU ==
            MatMul(AngleAxis_zTo, MatMul(AngleAxis_xTo, ned.orientation))
    IN  Isometry(vehicle_position_ENU, vehicle_orientation_ENU)

\* Lines 350-365: the camera pose of image a in ENU.
StepCameraENU(a) ==
    LET ned == a.camera_pose_world_NED
        camera_position_world_ENU ==
            << ned.position[2], ned.position[1], -1 * ned.position[3] >>
        camera_orientation_world_ENU ==
            MatMul(AngleAxis_zTo, MatMul(AngleAxis_xTo, ned.orientation))
    IN  Isometry(camera_position_world_ENU, camera_orientation_world_ENU)

\* Lines 368-388: image_trans_ of step_autonomy.
StepImageTrans(a, cam_name) ==
    TransformStamped(base_link,
                     ros_namespace_ \o Slash \o cam_name
                        \o << "/", "p", "o", "s", "e" >>,
                     IsoMul(IsoInverse(StepVehicleENU(a)), StepCameraENU(a)))

\* Lines 394-404: world_trans_ from an image.
StepWorldTrans(a) ==
    TransformStamped(world_frame, base_link, StepVehicleENU(a))

\* Line 326: the images of image_data_ of the camera recorded as cam_name.
StepCamMatch(cam_name) ==
    { i \in DOMAIN image_data_ : image_data_[i].cam_name = cam_name }

\* Lines 324-410: for each recorded camera name, the transforms of the first
\* image of image_data_ of that camera.
RECURSIVE StepCamLoop(_, _)
StepCamLoop(tf, c) ==
    IF c > Len(camera_names_) THEN tf
    ELSE
      LET cam_name == camera_names_[c]
          found == StepCamMatch(cam_name)
          a == image_data_[CHOOSE i \in found : \A m \in found : i <= m]
      IN  StepCamLoop(
            IF found = {} THEN tf
            ELSE IF pub_lidar_data_
            THEN Append(tf, StepImageTrans(a, cam_name))
            ELSE tf \o << StepImageTrans(a, cam_name), StepWorldTrans(a) >>,
            c + 1)

\* sizeof(float), line 443, and the offset step of line 429
SizeofFloat == 4

\* sensor_msgs::PointField::FLOAT32
FLOAT32 == 7

\* Lines 416-445: the sensor_msgs::PointCloud2 of lidar_data_.
LidarMsg ==
    LET n == Len(lidar_data_.point_cloud)
        frame == base_laser
        names == << "x", "y", "z" >>
        fields == [d \in 1..3 |->
                      [name |-> names[d], offset |-> (d - 1) * SizeofFloat,
                       datatype |-> FLOAT32, count |-> 1]]
        offset == Len(fields) * SizeofFloat
        width == n \div 3
    IN  IF n > 3
        THEN [frame_id   |-> frame,
              height     |-> 1,
              width      |-> width,
              fields     |-> fields,
              point_step |-> offset,
              row_step   |-> offset * width,
              is_dense   |-> TRUE,
              points     |-> lidar_data_.point_cloud,
              data_size  |-> SizeofFloat * n]
        ELSE [frame_id   |-> frame,
              height     |-> 0,
              width      |-> 0,
              fields     |-> << >>,
              point_step |-> 0,
              row_step   |-> 0,
              is_dense   |-> FALSE,
              points     |-> << >>,
              data_size  |-> 0]

\* Lines 452-467: the vehicle pose of LIDAR sample l in ENU.
LidarVehicleENU(l) ==
    LET ned == l.vehicle_pose_world_NED
        vehicle_position_ENU ==
            << ned.position[2], ned.position[1], -1 * ned.position[3] >>
        vehicle_orientation_ENU ==
            MatMul(AngleAxis_zTo, MatMul(AngleAxis_xTo, ned.orientation))
    IN  Isometry(vehicle_position_ENU, vehicle_orientation_ENU)

\* LidarSensorENU with the two rotations applied in the other order.
LidarSensorENU_ZThenX(l) ==
    LET ned == l.lidar_pose_world_NED
        lidar_position_world_ENU ==
            << ned.position[2], ned.position[1], -1 * ned.position[3] >>
        lidar_orientation_world_ENU ==
            MatMul(AngleAxis_xTo, MatMul(AngleAxis_zTo, ned.orientation))
    IN  Isometry(lidar_position_world_ENU, lidar_orientation_world_ENU)

\* Lines 472-487: the LIDAR pose of LIDAR sample l in ENU.
LidarSensorENU(l) ==
    LET ned == l.lidar_pose_world_NED
        lidar_position_world_ENU ==
            << ned.position[2], ned.position[1], -1 * ned.position[3] >>
        lidar_orientation_world_ENU ==
            MatMul(AngleAxis_zTo, MatMul(AngleAxis_xTo, ned.orientation))
    IN  Isometry(lidar_position_world_ENU, lidar_orientation_world_ENU)

\* Lines 490-507: laser_trans_.
LaserTrans ==
    TransformStamped(base_link, base_laser,
                     IsoMul(IsoInverse(LidarVehicleENU(lidar_data_)),
                            LidarSensorENU(lidar_data_)))

\* Lines 513-523: world_trans_ from the LIDAR sample.
LidarWorldTrans ==
    TransformStamped(world_frame, base_link, LidarVehicleENU(lidar_data_))

\* Lines 266-272: pending ROS callbacks, the empty batch, and the lock.
StepLock ==
    /\ init_pc = "done"
    /\ step_pc = "idle"
    /\ MutexLock("step")
    /\ step_pc' = "crit"
    /\ Silent("StepLock", 0)
    /\ UNCHANGED << config_vars, first, last, lidar_data_, image_data_,
                    img_publishers_, camera_names_, img_topic_published_,
                    subscriptions, init_pc, cb_pc, cb_img_topic_published,
                    step_img_topic_published, init_tf_sent, sensor_tf_sent >>

\* Lines 273-274: the flag is read, and the lock released.
StepReadUnlock ==
    /\ step_pc = "crit"
    /\ step_img_topic_published' = img_topic_published_
    /\ MutexUnlock("step")
    /\ step_pc' = "body"
    /\ Silent("StepReadUnlock", 0)
    /\ UNCHANGED << config_vars, first, last, lidar_data_, image_data_,
                    img_publishers_, camera_names_, img_topic_published_,
                    subscriptions, init_pc, cb_pc, cb_img_topic_published,
                    init_tf_sent, sensor_tf_sent >>

\* Lines 276-529: the images, the point cloud and the batch of transforms.
StepBody ==
    /\ step_pc = "body"
    /\ LET images_on == pub_image_data_ /\ step_img_topic_published
           cams == IF images_on THEN StepCamLoop(<< >>, 1) ELSE << >>
           tf_msg_vec_ == IF pub_lidar_data_
                          THEN cams \o << LaserTrans, LidarWorldTrans >>
                          ELSE cams
       IN  /\ out_images' = IF images_on THEN StepImagesLoop(<< >>, 1)
                            ELSE << >>
           /\ out_scan' = IF pub_lidar_data_ THEN << LidarMsg >> ELSE << >>
           /\ out_tf' = << tf_msg_vec_ >>
    /\ event' = Event("StepBody", 0, step_img_topic_published)
    /\ sensor_tf_sent' = TRUE
    /\ step_pc' = "idle"
    /\ step_img_topic_published' = FALSE
    /\ UNCHANGED << config_vars, first, last, lidar_data_, image_data_, img_publishers_,
                    camera_names_, img_topic_published_,
                    img_topic_published_mutex_, subscriptions, init_pc,
                    cb_pc, cb_img_topic_published, init_tf_sent >>

step_autonomy == StepLock \/ StepReadUnlock \/ StepBody

Next ==
    \/ InitSetup
    \/ InitSubscribe
    \/ LidarCallback
    \/ ImageCallback
    \/ step_autonomy

Spec == Init /\ [][Next]_vars

----------------------------------------------------------------------------
(* Properties *)

NoOutput == out_images = << >> /\ out_scan = << >> /\ out_tf = << >>

\* A call of step_autonomy has just ended in which image publishing was
\* enabled and the flag was observed set.
TickWithImages ==
    event.op = "StepBody" /\ pub_image_data_ /\ event.flag

\* C1: when the image callback is given a message with no image, the held
\* image sample, the publishers, the camera names and the flag are left as
\* they were, and nothing is published.
C1_EmptyImageSampleDropped ==
    [][ (event'.op = "airsim_image_cb" /\ event'.n = 0) =>
            /\ image_data_' = image_data_
            /\ img_publishers_' = img_publishers_
            /\ camera_names_' = camera_names_
            /\ img_topic_published_' = img_topic_published_
            /\ NoOutput' ]_vars

C3_PublishOncePerTopic ==
    \A i, j \in DOMAIN img_publishers_ :
        i # j => img_publishers_[i] # img_publishers_[j]

\* C4: at the end of a call of step_autonomy with image publishing enabled
\* and the flag observed set, every image of the held sample has been
\* published once, on the publisher of the topic
\* "/<namespace>/<lower-cased camera name>/<lower-cased image type>".
C4_AllHeldImagesPublished ==
    TickWithImages =>
        /\ Len(out_images) = Len(image_data_)
        /\ \A i \in DOMAIN image_data_ :
              LET topic == TopicName(to_lower_copy(image_data_[i].cam_name),
                                     to_lower_copy(image_data_[i].img_type_name))
              IN  /\ i \in DOMAIN out_images
                  /\ out_images[i].image = image_data_[i]
                  /\ out_images[i].topic = topic
                  /\ out_images[i].publisher \in DOMAIN img_publishers_
                  /\ img_publishers_[out_images[i].publisher] = topic

\* The transforms of a batch from base_link to the pose frame of a camera.
CameraTransformsOf(batch, name) ==
    { k \in DOMAIN batch :
        /\ batch[k].frame_id = base_link
        /\ batch[k].child_frame_id =
              ros_namespace_ \o Slash \o name \o << "/", "p", "o", "s", "e" >> }

\* C5: at the end of a call of step_autonomy with image publishing enabled
\* and the flag observed set, for each recorded camera name of which the held
\* sample has an image, the batch sent holds exactly one transform from
\* "<namespace>/base_link" to "<namespace>/<camera name>/pose", computed from
\* the poses of an image of that camera.
C5_OneTransformPerCamera ==
    TickWithImages =>
        \A c \in DOMAIN camera_names_ :
            LET name == camera_names_[c]
                imgs == { i \in DOMAIN image_data_ :
                            to_lower_copy(image_data_[i].cam_name) = name }
                sent == CameraTransformsOf(out_tf[1], name)
            IN  imgs # {} =>
                  /\ Cardinality(sent) = 1
                  /\ \A k \in sent : \E i \in imgs :
                        out_tf[1][k] = StepImageTrans(image_data_[i], name)

\* C6: img_topic_published_ is read and written with
\* img_topic_published_mutex_ held, by the routine that holds it; the lock
\* is held in the two critical sections only, so not while publishers are
\* made, images published or transforms sent, nor when a routine returns;
\* and whoever holds the lock can release it.
C6_FlagGuardedByMutex ==
    /\ [] /\ (img_topic_published_mutex_ = "cb") <=> (cb_pc \in {"crit1", "crit2"})
          /\ (img_topic_published_mutex_ = "step") <=> (step_pc = "crit")
          /\ img_topic_published_mutex_ \in {"free", "cb", "step"}
          /\ img_topic_published_mutex_ # "free" =>
                ENABLED (CbReadUnlock \/ CbSetUnlock \/ StepReadUnlock)
    /\ [][ img_topic_published_' # img_topic_published_ =>
              img_topic_published_mutex_ = "cb" ]_vars
    /\ [][ event'.op \in {"CbReadUnlock", "CbSetUnlock"} =>
              img_topic_published_mutex_ = "cb" ]_vars
    /\ [][ event'.op = "StepReadUnlock" =>
              img_topic_published_mutex_ = "step" ]_vars

\* The image callback waits for the lock that step_autonomy holds.
C6_Witness ==
    /\ cb_pc \in {"lock1", "lock2"}
    /\ step_pc = "crit"
    /\ img_topic_published_mutex_ = "step"

\* NED to ENU, as the claims state it.
PositionENU(p) == << p[2], p[1], 0 - p[3] >>

OrientationENU(q) == MatMul(AngleAxis_zTo, MatMul(AngleAxis_xTo, q))

\* The pose of a sensor relative to the vehicle, both converted to ENU.
RelativeENU(vehicle, sensor) ==
    LET Rv == Transpose(OrientationENU(vehicle.orientation))
        d  == VecAdd(PositionENU(sensor.position),
                     VecNeg(PositionENU(vehicle.position)))
    IN  [translation |-> MatVec(Rv, d),
         rotation    |-> MatMul(Rv, OrientationENU(sensor.orientation))]

\* The translation and rotation that transform t, sent by the image callback
\* or by step_autonomy, must have: from the LIDAR sample for the laser
\* frame, and for the world frame of a tick that publishes LIDAR data; from
\* an image of the held sample otherwise.
ExpectedOf(t) ==
    IF t.child_frame_id = base_laser
    THEN { RelativeENU(lidar_data_.vehicle_pose_world_NED,
                       lidar_data_.lidar_pose_world_NED) }
    ELSE IF t.frame_id = world_frame /\ event.op = "StepBody" /\ pub_lidar_data_
    THEN { [translation |-> PositionENU(lidar_data_.vehicle_pose_world_NED.position),
            rotation    |-> OrientationENU(lidar_data_.vehicle_pose_world_NED.orientation)] }
    ELSE IF t.frame_id = world_frame
    THEN { [translation |-> PositionENU(image_data_[i].vehicle_pose_world_NED.position),
            rotation    |-> OrientationENU(image_data_[i].vehicle_pose_world_NED.orientation)] :
           i \in DOMAIN image_data_ }
    ELSE { RelativeENU(image_data_[i].vehicle_pose_world_NED,
                       image_data_[i].camera_pose_world_NED) :
           i \in DOMAIN image_data_ }

\* The transforms just sent by the image callback or by step_autonomy.
SensorTransforms ==
    IF event.op \in {"StepBody", "CbCreate"}
    THEN UNION { Range(out_tf[b]) : b \in DOMAIN out_tf }
    ELSE {}

\* C7: every transform sent by the image callback or by step_autonomy has the
\* translation got from the NED positions (x, y, z) of the sample converted
\* to (y, x, -z); and the conversion, applied to its own result for a
\* position of a held sample, gives the position back.
C7_PositionConversion ==
    /\ \A t \in SensorTransforms :
          \E e \in ExpectedOf(t) : t.translation = e.translation
    /\ \A i \in DOMAIN image_data_ :
          LET a == image_data_[i]
              v == a.vehicle_pose_world_NED
              c == a.camera_pose_world_NED
              cb == [a EXCEPT
                       !.vehicle_pose_world_NED.position = CbVehicleENU(a).translation,
                       !.camera_pose_world_NED.position = CbCameraENU(a).translation]
              st == [a EXCEPT
                       !.vehicle_pose_world_NED.position = StepVehicleENU(a).translation,
                       !.camera_pose_world_NED.position = StepCameraENU(a).translation]
          IN  /\ CbVehicleENU(cb).translation = v.position
              /\ CbCameraENU(cb).translation = c.position
              /\ StepVehicleENU(st).translation = v.position
              /\ StepCameraENU(st).translation = c.position
    /\ LET l == lidar_data_
           twice == [l EXCEPT
                       !.vehicle_pose_world_NED.position = LidarVehicleENU(l).translation,
                       !.lidar_pose_world_NED.position = LidarSensorENU(l).translation]
       IN  /\ LidarVehicleENU(twice).translation = l.vehicle_pose_world_NED.position
           /\ LidarSensorENU(twice).translation = l.lidar_pose_world_NED.position

\* step_autonomy has just sent a camera transform, the laser transform and
\* the world transform.
C7_Witness ==
    /\ TickWithImages
    /\ pub_lidar_data_
    /\ Len(out_tf[1]) >= 3

\* C8: every transform sent by the image callback or by step_autonomy has the
\* rotation got from the NED orientations q of the sample converted to
\* Rz(+90) * (Rx(-180) * q).
C8_OrientationConversion ==
    \A t \in SensorTransforms :
        \E e \in ExpectedOf(t) : t.rotation = e.rotation

\* The image callback has just sent the camera and world transforms of two
\* new cameras, while a LIDAR sample that the callback accepted is held.
C8_Witness ==
    /\ event.op = "CbCreate"
    /\ Len(out_tf) >= 2
    /\ Len(lidar_data_.point_cloud) >= 3

\* C9: when step_autonomy ends a call made with the flag observed set while
\* the sample the publishers were made from is still held, each transform the
\* image callback sent while making them (camera and world transform of each
\* new camera) is in the batch of the tick, with the same frames, translation
\* and rotation.
C9_CallbackAndTickAgree ==
    (TickWithImages /\ image_data_ = first.sample) =>
        \A b \in DOMAIN first.tf : \A k \in DOMAIN first.tf[b] :
            \E m \in DOMAIN out_tf[1] : out_tf[1][m] = first.tf[b][k]

\* C10: init sends one transform, once: from "world" to
\* "<namespace prefix><entity id>/base_link", with the position and the
\* quaternion of the truth state; no subscription is registered, and no
\* callback or tick has sent a transform, before it is sent.
C10_InitialWorldTransform ==
    /\ init_tf_sent = (IF init_pc = "start" THEN 0 ELSE 1)
    /\ init_tf_sent = 0 => subscriptions = {} /\ ~sensor_tf_sent
    /\ event.op = "InitSetup" =>
          /\ out_tf = << << [frame_id       |-> world_frame,
                              child_frame_id |-> ros_name_param \o entity_id_str
                                  \o << "/", "b", "a", "s", "e", "_", "l", "i", "n", "k" >>,
                              translation    |-> state_truth.position,
                              rotation       |-> state_truth.orientation] >> >>
          /\ subscriptions = {}
          /\ ~sensor_tf_sent

\* After the initial transform, a subscription is registered and a tick has
\* sent its batch.
C10_Witness ==
    /\ init_tf_sent = 1
    /\ subscriptions # {}
    /\ sensor_tf_sent

\* C11: at the end of a call of step_autonomy, the point cloud published and
\* the poses of the laser and world transforms are those of the last LIDAR
\* message the callback accepted, and the images published, when the flag
\* was observed set, are those of the last non-empty image message received.
C11_MostRecentSampleHeld ==
    event.op = "StepBody" =>
        /\ pub_lidar_data_ =>
              \A m \in last.lidar :
                 LET rel == RelativeENU(m.vehicle_pose_world_NED,
                                        m.lidar_pose_world_NED)
                     veh == m.vehicle_pose_world_NED
                 IN  /\ Len(out_scan) = 1
                     /\ out_scan[1].points = m.point_cloud
                     /\ \E k \in DOMAIN out_tf[1] :
                            /\ out_tf[1][k].child_frame_id = base_laser
                            /\ out_tf[1][k].translation = rel.translation
                            /\ out_tf[1][k].rotation = rel.rotation
                     /\ \E k \in DOMAIN out_tf[1] :
                            /\ out_tf[1][k].frame_id = world_frame
                            /\ out_tf[1][k].translation =
                                  PositionENU(veh.position)
                            /\ out_tf[1][k].rotation =
                                  OrientationENU(veh.orientation)
        /\ (pub_image_data_ /\ event.flag /\ last.images # << >>) =>
              /\ Len(out_images) = Len(last.images)
              /\ \A i \in DOMAIN last.images :
                    /\ i \in DOMAIN out_images
                    /\ out_images[i].image = last.images[i]

\* The transforms of a batch from "world" to base_link with the pose of
\* vehicle pose veh converted to ENU.
WorldTransformsOf(batch, veh) ==
    { k \in DOMAIN batch :
        /\ batch[k].frame_id = world_frame
        /\ batch[k].child_frame_id = base_link
        /\ batch[k].translation = PositionENU(veh.position)
        /\ batch[k].rotation = OrientationENU(veh.orientation) }

\* C12: at the end of a call of step_autonomy, when LIDAR publishing is
\* enabled the batch has a "world" -> base_link transform of the vehicle pose
\* of the held LIDAR sample; when it is disabled, image publishing is enabled
\* and the flag was observed set, the batch has a "world" -> base_link
\* transform of the vehicle pose of an image of the held image sample.
C12_WorldFrameFromSensorSample ==
    event.op = "StepBody" =>
        /\ pub_lidar_data_ =>
              WorldTransformsOf(out_tf[1],
                                lidar_data_.vehicle_pose_world_NED) # {}
        /\ (~pub_lidar_data_ /\ pub_image_data_ /\ event.flag) =>
              \E i \in DOMAIN image_data_ :
                 WorldTransformsOf(out_tf[1],
                                   image_data_[i].vehicle_pose_world_NED) # {}

\* The lower-cased camera names of the images of a sample.
LowerCasedCameras(sample) ==
    { to_lower_copy(sample[i].cam_name) : i \in DOMAIN sample }

\* C13: camera_names_ never holds a name twice; and when the image callback
\* has just made the publishers from a message, camera_names_ holds the
\* distinct lower-cased camera names of the message, and the callback has
\* sent as many batches as there are such names, each with exactly one
\* camera transform, one batch for each name.
C13_OneBroadcastPerCameraName ==
    /\ \A i, j \in DOMAIN camera_names_ :
          i # j => camera_names_[i] # camera_names_[j]
    /\ (event.op = "CbCreate" /\ ~event.flag) =>
          LET cams == LowerCasedCameras(first.sample)
          IN  /\ Range(camera_names_) = cams
              /\ Len(out_tf) = Cardinality(cams)
              /\ \A name \in cams :
                    Cardinality({ b \in DOMAIN out_tf :
                                    CameraTransformsOf(out_tf[b], name) # {} })
                        = 1
              /\ \A b \in DOMAIN out_tf :
                    Cardinality(UNION { CameraTransformsOf(out_tf[b], name) :
                                          name \in cams }) = 1

\* The publishers have just been made from a message of two images whose
\* camera names differ in letter case only.
C13_Witness ==
    /\ event.op = "CbCreate"
    /\ ~event.flag
    /\ Len(first.sample) = 2
    /\ first.sample[1].cam_name # first.sample[2].cam_name
    /\ Len(camera_names_) = 1
    /\ Len(out_tf) = 1

\* The publishers are those of the images of the sample, one for each image
\* and in the order of the images.
PublishersMadeFrom(sample) ==
    /\ Len(img_publishers_) = Len(sample)
    /\ \A i \in DOMAIN sample :
          /\ i \in DOMAIN img_publishers_
          /\ img_publishers_[i] =
                TopicName(to_lower_copy(sample[i].cam_name),
                          to_lower_copy(sample[i].img_type_name))

\* C14: the flag is unset as long as no non-empty image message has been
\* handled to its end; when the callback has just made the publishers, the
\* message is the only non-empty one received so far, each of its images
\* has a publisher and has been published once on it, and the flag is still
\* unset; the flag is set only by the last step of that callback; once set
\* it stays set, and no step changes img_publishers_ or camera_names_; and
\* a flag observed set by step_autonomy is set.
C14_FlagSetAfterPublishersMade ==
    /\ [](/\ (~img_topic_published_ /\ cb_pc = "idle") =>
                (last.images = << >> /\ img_publishers_ = << >>
                    /\ camera_names_ = << >>)
          /\ (event.op = "CbCreate" /\ ~event.flag) =>
                /\ ~img_topic_published_
                /\ first.sample = last.images
                /\ first.sample # << >>
                /\ PublishersMadeFrom(first.sample)
                /\ Len(out_images) = Len(first.sample)
                /\ \A i \in DOMAIN first.sample :
                      /\ i \in DOMAIN out_images
                      /\ out_images[i].image = first.sample[i]
                      /\ out_images[i].publisher = i
                      /\ out_images[i].topic = img_publishers_[i]
          /\ img_topic_published_ =>
                (PublishersMadeFrom(first.sample)
                    /\ Range(camera_names_) = LowerCasedCameras(first.sample))
          /\ step_img_topic_published => img_topic_published_)
    /\ [][ (~img_topic_published_ /\ img_topic_published_') =>
              /\ event'.op = "CbSetUnlock"
              /\ first.sample # << >>
              /\ PublishersMadeFrom(first.sample) ]_vars
    /\ [][ img_topic_published_ =>
              /\ img_topic_published_'
              /\ img_publishers_' = img_publishers_
              /\ camera_names_' = camera_names_
              /\ first' = first ]_vars

\* A later non-empty image message has been handled with the flag set, and
\* step_autonomy has observed the flag set.
C14_Witness ==
    /\ event.op = "CbCreate"
    /\ event.flag
    /\ image_data_ # first.sample
    /\ Len(img_publishers_) = 2
    /\ step_img_topic_published

\* C15: at the end of a call of step_autonomy that publishes LIDAR data while
\* the held sample is one the callback accepted, of n values, the point
\* cloud message published has height 1, width n / 3, at least 1, and a data
\* array that is not empty.
C15_AcceptedSamplePublishedWithPoints ==
    (event.op = "StepBody" /\ pub_lidar_data_ /\ last.lidar # {}) =>
        LET n == Len(lidar_data_.point_cloud)
        IN  /\ n >= 3
            /\ Len(out_scan) = 1
            /\ out_scan[1].height = 1
            /\ out_scan[1].width = n \div 3
            /\ out_scan[1].width >= 1
            /\ out_scan[1].data_size > 0

\* C16: a point cloud message published with points has the fields x, y, z
\* of type FLOAT32 and count 1 at the offsets 0, 4, 8, point_step 12,
\* height 1, width n / 3 for the n values of the held sample, row_step
\* point_step * width, and a data array of row_step * height bytes.
C16_PointCloudMessageConsistent ==
    (event.op = "StepBody" /\ pub_lidar_data_ /\ out_scan[1].data_size > 0) =>
        LET msg == out_scan[1]
            n == Len(lidar_data_.point_cloud)
        IN  /\ Len(msg.fields) = 3
            /\ << msg.fields[1].name, msg.fields[2].name,
                  msg.fields[3].name >> = << "x", "y", "z" >>
            /\ << msg.fields[1].offset, msg.fields[2].offset,
                  msg.fields[3].offset >> = << 0, 4, 8 >>
            /\ \A d \in 1..3 : /\ msg.fields[d].datatype = FLOAT32
                                /\ msg.fields[d].count = 1
            /\ msg.point_step = 12
            /\ msg.height = 1
            /\ msg.width = n \div 3
            /\ msg.row_step = msg.point_step * msg.width
            /\ msg.data_size = msg.row_step * msg.height

\* C17: no two transforms of the batch that a call of step_autonomy sends
\* have the same child frame.
C17_OneTransformPerChildFrame ==
    event.op = "StepBody" =>
        /\ Len(out_tf) = 1
        /\ \A i, j \in DOMAIN out_tf[1] :
              i # j =>
                 out_tf[1][i].child_frame_id # out_tf[1][j].child_frame_id

============================================================================
